---- MODULE Spec2Model ----
(***************************************************************************)
(* A model of giotto-deep's DatasetCloud (gdeep/data/dataset_cloud.py) and *)
(* Pipeline (gdeep/pipeline/pipeline.py).                                  *)
(*                                                                         *)
(* Strings are sequences of tokens: "private_toy/data.pt" is               *)
(* <<"private_", "toy", "/", "data", ".", "pt">>, so that split('/'),      *)
(* split('.') and startswith("private_") are computed, not assumed.        *)
(***************************************************************************)
EXTENDS Integers, Sequences, FiniteSets, TLC

\* ------------------------------------------------------------------ bounds
MaxOps == 4

\* two clients of the same bucket, working in the same directory
Clients == {1, 2}

\* ------------------------------------------------------- strings as tokens
NoneStr == <<>>

RECURSIVE FirstIndexOf(_, _, _)
FirstIndexOf(s, tok, i) ==
    IF i > Len(s) THEN Len(s) + 1
    ELSE IF s[i] = tok THEN i ELSE FirstIndexOf(s, tok, i + 1)

RECURSIVE LastIndexOf(_, _, _)
LastIndexOf(s, tok, i) ==
    IF i < 1 THEN 0
    ELSE IF s[i] = tok THEN i ELSE LastIndexOf(s, tok, i - 1)

\* blob.name.split('/')[0]
SplitSlashFirst(s) == SubSeq(s, 1, FirstIndexOf(s, "/", 1) - 1)

\* path.split('.')[-1]
get_filetype(path) == SubSeq(path, LastIndexOf(path, ".", Len(path)) + 1, Len(path))

\* str.startswith("private_")
StartsWithPrivate(s) == Len(s) >= 1 /\ s[1] = "private_"

\* os.path.join(a, b)
Join(a, b) == a \o <<"/">> \o b

PNG == <<"giotto-deep-big", ".", "png">>
INDEX == <<"datasets", ".", "json">>
MetadataJson == <<"metadata", ".", "json">>
TmpMetadata == <<"tmp_metadata", ".", "json">>
AllowedTypes == {<<"pt">>, <<"npy">>}

\* ------------------------------------------------------------ environment
\* The caller's inputs: dataset names, payload files, explicit metadata names.
DatasetNames == {<<"toy">>}
Exts == {"pt", "npy", "txt"}
\* the (data, label) extensions of an _upload, and those of a single call
UploadExts == {<<"pt", "pt">>, <<"npy", "npy">>, <<"txt", "pt">>, <<"pt", "txt">>}
CallExts == {"pt", "txt"}
DataPath(c, e) == <<"data_of_" \o ToString(c), ".", e>>
LabelPath(c, e) == <<"labels_of_" \o ToString(c), ".", e>>
UserMetaPath(c) == <<"meta_of_" \o ToString(c), ".", "json">>
UserFiles ==
    {DataPath(c, e) : c \in Clients, e \in Exts}
        \cup {LabelPath(c, e) : c \in Clients, e \in Exts}
        \cup {UserMetaPath(c) : c \in Clients}
MetaNameArgs == {NoneStr, <<"other">>}
MetadataPathArgs == {NoneStr}
DownloadDir == <<"dl">>

Configs ==
    [use_public_access : BOOLEAN, make_public : BOOLEAN, dataset_name : DatasetNames]

\* The bytes of a file or blob: where they came from, and (for the index and
\* for a metadata record) the names they hold.
Bytes(origin, names, pub) == [origin |-> origin, names |-> names, pub |-> pub]

VARIABLES
    cfg,            \* per client: the constructor's arguments
    alive,          \* per client: constructed and not yet discarded
    path_metadata,  \* per client: self.path_metadata (NoneStr: None)
    metadata,       \* per client: self.metadata ("unset": no such attribute)
    bucket,         \* the remote store: blob name -> bytes
    fs,             \* the local files written by the program: path -> bytes
    dirs,           \* the local dataset directories that exist
    nOps,           \* calls made so far (bounds the model)
    uploaded,       \* per client: the arguments of its last _upload that returned
    last,           \* the most recent step: who, what, its outcome, its I/O
    inflight        \* per client: its _upload under way, when calls interleave

cloudVars ==
    <<cfg, alive, path_metadata, metadata, bucket, fs, dirs, nOps, uploaded,
      last, inflight>>

\* The Pipeline object, the train call in flight and what it has done so far.
VARIABLES
    dataloaders,    \* self.dataloaders: 1 to 3 loaders (an entry after the first may be None)
    outputs,        \* outputs per sample of the labels (1: one class index per sample)
    train_epoch,    \* self.train_epoch
    val_epoch,      \* self.val_epoch
    train_cycle,    \* self.train_cycle
    ppc,            \* where the train call stands ("idle": no call in flight)
    call,           \* the arguments of the last train call
    t,              \* the epoch index of the running loop
    folds,          \* the (tr_idx, val_idx) pairs the split has yielded in this call
    mean_val_loss,  \* train's list mean_val_loss
    mean_val_acc,   \* train's list mean_val_acc
    val,            \* train's locals valloss, valacc (unbound until assigned)
    nWarnings,      \* warnings.warn calls of this train call
    lastPass,       \* the most recent _train_loop or _val_loop: its loader and what it returned
    result,         \* how the last train call ended
    nTrain,         \* train calls so far (bounds the model)
    passes,         \* the passes this train call has completed, in order
    lastReset,      \* the reset_epoch since the last train call, if any
    optimizer       \* self.optimizer: how often this call built it, the calls made on it

pipeVars ==
    <<dataloaders, outputs, train_epoch, val_epoch, train_cycle, ppc, call, t, folds,
      mean_val_loss, mean_val_acc, val, nWarnings, lastPass, result, nTrain, passes,
      lastReset, optimizer>>

vars == <<cloudVars, pipeVars>>

\* -------------------------------------------------------------- DatasetCloud
\* __init__: non-public datasets start with "private_".
SelfName(c) ==
    IF cfg[c].make_public \/ cfg[c].use_public_access
    THEN cfg[c].dataset_name
    ELSE <<"private_">> \o cfg[c].dataset_name

NoMetadata == [set |-> FALSE, name |-> NoneStr]

\* _check_public_access: the assertion holds
check_public_access(c) == cfg[c].use_public_access = FALSE

\* set([blob.name.split('/')[0] for blob in list_blobs() if blob.name != PNG])
RawListing(b) == {SplitSlashFirst(k) : k \in (DOMAIN b) \ {PNG}}

\* the listing of an authenticated client, had it kept the private_ names
ApiListing_with_private(b) == {SplitSlashFirst(k) : k \in (DOMAIN b) \ {PNG, INDEX}}

\* get_existing_dataset, the branch of an authenticated client
ApiListing(b) ==
    {n \in {SplitSlashFirst(k) : k \in (DOMAIN b) \ {PNG, INDEX}} : ~StartsWithPrivate(n)}

\* get_existing_dataset: the public branch fetches and parses datasets.json
get_existing_dataset(c, b) ==
    IF cfg[c].use_public_access
    THEN IF INDEX \in DOMAIN b /\ b[INDEX].pub
         THEN [out |-> "ok", names |-> b[INDEX].names]
         ELSE [out |-> "HTTPError", names |-> {}]
    ELSE [out |-> "ok", names |-> ApiListing(b)]

\* _check_dataset_exists_locally
check_dataset_exists_locally(c, d) == Join(DownloadDir, SelfName(c)) \in d

\* _create_dataset_folder
create_dataset_folder(c, d) == d \cup {Join(DownloadDir, SelfName(c))}

FileExists(f, path) == path \in UserFiles \/ path \in DOMAIN f
FileBytes(f, path) == IF path \in UserFiles THEN Bytes(path, {}, FALSE) ELSE f[path]

\* _DataCloud.upload_file(source, target, make_public, overwrite).  When the
\* target exists and overwrite is not asked for, the backend either refuses
\* or replaces the blob: refuse chooses.
upload_file(b, f, source, target, make_public, overwrite, refuse) ==
    IF ~FileExists(f, source)
    THEN [out |-> "SourceFileError", bucket |-> b, puts |-> <<>>]
    ELSE IF target \in DOMAIN b /\ ~overwrite /\ refuse
    THEN [out |-> "BlobExistsError", bucket |-> b, puts |-> <<>>]
    ELSE [out |-> "ok",
          bucket |-> (target :> [FileBytes(f, source) EXCEPT !.pub = make_public]) @@ b,
          puts |-> <<target>>]

Failed(b, why) == [out |-> why, bucket |-> b, puts |-> <<>>]

\* _upload_metadata(path)
upload_metadata(c, b, f, path, refuse) ==
    IF ~check_public_access(c) THEN Failed(b, "PublicAccessError")
    ELSE IF ~metadata[c].set THEN Failed(b, "AttributeError")
    ELSE upload_file(b, f, path, Join(metadata[c].name, MetadataJson),
                     cfg[c].make_public, FALSE, refuse)

\* _upload_data(path)
upload_data(c, b, f, path, refuse) ==
    IF ~check_public_access(c) THEN Failed(b, "PublicAccessError")
    ELSE IF get_filetype(path) \notin AllowedTypes THEN Failed(b, "FileTypeError")
    ELSE IF ~metadata[c].set THEN Failed(b, "AttributeError")
    ELSE upload_file(b, f, path,
                     Join(metadata[c].name, <<"data", ".">> \o get_filetype(path)),
                     cfg[c].make_public, FALSE, refuse)

\* _upload_label(path): no access check; a public client has no _data_cloud
upload_label(c, b, f, path, refuse) ==
    IF get_filetype(path) \notin AllowedTypes THEN Failed(b, "FileTypeError")
    ELSE IF cfg[c].use_public_access THEN Failed(b, "AttributeError")
    ELSE IF ~metadata[c].set THEN Failed(b, "AttributeError")
    ELSE upload_file(b, f, path,
                     Join(metadata[c].name, <<"labels", ".">> \o get_filetype(path)),
                     cfg[c].make_public, FALSE, refuse)

\* _update_dataset_list: the listing is dumped to tmp_datasets.json, uploaded
\* over datasets.json, and the temporary file removed
update_dataset_list(c, b) ==
    IF ~check_public_access(c) THEN Failed(b, "PublicAccessError")
    ELSE [out |-> "ok",
          bucket |-> (INDEX :> Bytes(<<"tmp_datasets", ".", "json">>,
                                     get_existing_dataset(c, b).names, TRUE)) @@ b,
          puts |-> <<INDEX>>]
\* wget.download(url, out): an existing out is never overwritten, the copy is
\* stored under the first free "<stem> (k).<ext>"
Numbered(out, k) ==
    SubSeq(out, 1, LastIndexOf(out, ".", Len(out)) - 1)
        \o <<" (" \o ToString(k) \o ")">>
        \o SubSeq(out, LastIndexOf(out, ".", Len(out)), Len(out))

RECURSIVE FirstFree(_, _, _)
FirstFree(f, out, k) ==
    IF Numbered(out, k) \notin DOMAIN f THEN Numbered(out, k) ELSE FirstFree(f, out, k + 1)

WgetTarget(f, out) == IF out \notin DOMAIN f THEN out ELSE FirstFree(f, out, 1)

\* the three files _download_using_url asks for, in its order
UrlFiles == <<MetadataJson, <<"data", ".", "pt">>, <<"labels", ".", "pt">>>>

RECURSIVE WgetAll(_, _, _, _, _)
WgetAll(c, b, f, i, got) ==
    IF i > Len(UrlFiles) THEN [out |-> "ok", fs |-> f, gets |-> got]
    ELSE LET blob == Join(SelfName(c), UrlFiles[i])
             out == Join(Join(DownloadDir, SelfName(c)), UrlFiles[i])
         IN  IF blob \notin DOMAIN b \/ ~b[blob].pub
             THEN [out |-> "HTTPError", fs |-> f, gets |-> got]
             ELSE WgetAll(c, b, (WgetTarget(f, out) :> b[blob]) @@ f, i + 1,
                          got \cup {blob})

\* _download_using_url
download_using_url(c, b, f, d) ==
    LET existing == get_existing_dataset(c, b) IN
    IF existing.out # "ok"
    THEN [out |-> "HTTPError", fs |-> f, dirs |-> d, gets |-> {}]
    ELSE IF SelfName(c) \notin existing.names
    THEN [out |-> "NotFoundError", fs |-> f, dirs |-> d, gets |-> {}]
    ELSE LET d2 == IF check_dataset_exists_locally(c, d) THEN d
                   ELSE create_dataset_folder(c, d)
             w == WgetAll(c, b, f, 1, {})
         IN  [out |-> w.out, fs |-> w.fs, dirs |-> d2, gets |-> w.gets]

\* _DataCloud.download_folder(prefix): every blob under the prefix is fetched
\* to <download_directory>/<blob name>
UnderPrefix(b, name) ==
    {k \in DOMAIN b : SplitSlashFirst(k) = name /\ Len(k) > Len(name)}

download_folder(b, f, name) ==
    LET blobs == UnderPrefix(b, name)
        paths == {Join(DownloadDir, k) : k \in blobs}
    IN  [fs |-> [p \in paths \cup DOMAIN f |->
                    IF p \in paths
                    THEN b[CHOOSE k \in blobs : Join(DownloadDir, k) = p]
                    ELSE f[p]],
         gets |-> blobs]

\* _download_using_api, had it created the dataset folder before looking the
\* name up
download_using_api_folder_first(c, b, f, d) ==
    IF SelfName(c) \notin RawListing(b)
    THEN [out |-> "NotFoundError", fs |-> f, dirs |-> create_dataset_folder(c, d),
          gets |-> {}]
    ELSE LET w == download_folder(b, f, SelfName(c))
         IN  [out |-> "ok", fs |-> w.fs, dirs |-> create_dataset_folder(c, d),
              gets |-> w.gets]

\* _download_using_api
download_using_api(c, b, f, d) ==
    IF ~check_public_access(c)
    THEN [out |-> "PublicAccessError", fs |-> f, dirs |-> d, gets |-> {}]
    ELSE IF SelfName(c) \notin RawListing(b)
    THEN [out |-> "NotFoundError", fs |-> f, dirs |-> d, gets |-> {}]
    ELSE LET d2 == IF check_dataset_exists_locally(c, d) THEN d
                   ELSE create_dataset_folder(c, d)
             w == download_folder(b, f, SelfName(c))
         IN  [out |-> "ok", fs |-> w.fs, dirs |-> d2, gets |-> w.gets]

\* download
download(c, b, f, d) ==
    IF cfg[c].use_public_access
    THEN download_using_url(c, b, f, d)
    ELSE download_using_api(c, b, f, d)

\* the set of names download checks the requested name against
DownloadListing(c, b) ==
    IF cfg[c].use_public_access THEN get_existing_dataset(c, b).names ELSE RawListing(b)

\* ------------------------------------------------------------------ steps
\* What a step did to a store (the local files, the bucket): the entries of f
\* that g no longer holds unchanged, and the entries g holds that f did not.
Changed(f, g) == {p \in DOMAIN f : p \notin DOMAIN g \/ g[p] # f[p]}
Created(f, g) == (DOMAIN g) \ (DOMAIN f)

\* The record of a step of client c: the call, its outcome, the dataset its
\* error names, the blobs it wrote (in order) and fetched, whether the name was
\* in the listing of the bucket and in the listing download() reads, whether
\* the local dataset directory existed, and what the step did to the bucket
\* (b2) and to the local files (f2).
Step(c, op, out, errName, puts, gets, b2, f2) ==
    [c |-> c, op |-> op, out |-> out, errName |-> errName, puts |-> puts,
     gets |-> gets,
     inRaw |-> SelfName(c) \in RawListing(bucket),
     listed |-> SelfName(c) \in DownloadListing(c, bucket),
     hadDir |-> check_dataset_exists_locally(c, dirs),
     touched |-> Changed(bucket, b2) \cup Created(bucket, b2),
     changed |-> Changed(fs, f2),
     created |-> Created(fs, f2)]

NoStep ==
    [c |-> 0, op |-> "init", out |-> "ok", errName |-> NoneStr, puts |-> <<>>,
     gets |-> {}, inRaw |-> FALSE, listed |-> FALSE, hadDir |-> FALSE, touched |-> {},
     changed |-> {}, created |-> {}]

NoArgs ==
    [path_data |-> NoneStr, path_label |-> NoneStr, name |-> NoneStr,
     metadata |-> Bytes(NoneStr, {}, FALSE)]

\* The bucket as it is created, and as an earlier client's _upload of a public
\* dataset toy (data.pt, labels.pt) leaves it.
EmptyBucket == (PNG :> Bytes(PNG, {}, TRUE)) @@ (INDEX :> Bytes(INDEX, {}, TRUE))

Earlier(file) == Bytes(<<"earlier_" \o file[1]>> \o Tail(file), {}, TRUE)

ToyBucket ==
    (Join(<<"toy">>, MetadataJson) :> Bytes(<<"metadata_of_earlier">>, {<<"toy">>}, TRUE))
        @@ (Join(<<"toy">>, <<"data", ".", "pt">>) :> Earlier(<<"data", ".", "pt">>))
        @@ (Join(<<"toy">>, <<"labels", ".", "pt">>) :> Earlier(<<"labels", ".", "pt">>))
        @@ (INDEX :> Bytes(<<"tmp_datasets", ".", "json">>, {<<"toy">>}, TRUE))
        @@ EmptyBucket

\* No _upload under way; an _upload that stands before the call named at,
\* with its arguments, the blobs it has written and the metadata it sent.
NotInFlight ==
    [at |-> "none", path_data |-> NoneStr, path_label |-> NoneStr,
     path_metadata |-> NoneStr, puts |-> <<>>, sent |-> Bytes(NoneStr, {}, FALSE)]
InFlight(at, pd, pl, pm, puts, sent) ==
    [at |-> at, path_data |-> pd, path_label |-> pl, path_metadata |-> pm, puts |-> puts,
     sent |-> sent]

InitCloud ==
    /\ inflight = [c \in Clients |-> NotInFlight]
    /\ cfg \in [Clients -> Configs]
    /\ ~cfg[1].use_public_access
    /\ alive = [c \in Clients |-> TRUE]
    /\ path_metadata = [c \in Clients |-> NoneStr]
    /\ metadata = [c \in Clients |-> NoMetadata]
    /\ bucket \in {EmptyBucket, ToyBucket}
    /\ fs = <<>>
    /\ dirs = {}
    /\ nOps = 0
    /\ uploaded = [c \in Clients |-> NoArgs]
    /\ last = NoStep

Ready(c) == alive[c] /\ nOps < MaxOps /\ nOps' = nOps + 1

\* download(), the whole call
Download(c) ==
    /\ Ready(c)
    /\ LET r == download(c, bucket, fs, dirs) IN
        /\ fs' = r.fs
        /\ dirs' = r.dirs
        /\ last' = Step(c, "download", r.out,
                        IF r.out = "NotFoundError" THEN SelfName(c) ELSE NoneStr,
                        <<>>, r.gets, bucket, r.fs)
    /\ UNCHANGED <<cfg, alive, path_metadata, metadata, bucket, uploaded>>

\* get_existing_dataset(), the whole call
GetExistingDataset(c) ==
    /\ Ready(c)
    /\ last' = Step(c, "get_existing_dataset", get_existing_dataset(c, bucket).out,
                    NoneStr, <<>>, {}, bucket, fs)
    /\ UNCHANGED <<cfg, alive, path_metadata, metadata, bucket, fs, dirs, uploaded>>

\* _add_metadata(..., name=nameArg)
AddMetadata(c, nameArg) ==
    /\ Ready(c)
    /\ IF ~check_public_access(c)
       THEN /\ last' = Step(c, "_add_metadata", "PublicAccessError", NoneStr, <<>>, {},
                            bucket, fs)
            /\ UNCHANGED <<path_metadata, metadata, fs>>
       ELSE LET name == IF nameArg = NoneStr THEN SelfName(c) ELSE nameArg
                f2 == (TmpMetadata :> Bytes(<<"metadata_of_" \o ToString(c)>>, {name},
                                           FALSE)) @@ fs
            IN  /\ path_metadata' = [path_metadata EXCEPT ![c] = TmpMetadata]
                /\ metadata' = [metadata EXCEPT ![c] = [set |-> TRUE, name |-> name]]
                /\ fs' = f2
                /\ last' = Step(c, "_add_metadata", "ok", NoneStr, <<>>, {}, bucket, f2)
    /\ UNCHANGED <<cfg, alive, bucket, dirs, uploaded>>
\* upload_exists, had it used the public listing: a private_ name is never found
upload_exists_public_listing(c, b) == SelfName(c) \in ApiListing(b)

\* _upload: the name is looked up in a listing of the bucket
upload_exists(c, b) == SelfName(c) \in RawListing(b)

\* r, unless it failed, followed by s: the writes add up
Then(r, s) == IF r.out # "ok" THEN r ELSE [s EXCEPT !.puts = r.puts \o @]

\* _upload(path_data, path_label, path_metadata)
upload(c, b, f, pd, pl, pm, refuse) ==
    IF ~check_public_access(c) THEN Failed(b, "PublicAccessError")
    ELSE IF upload_exists(c, b) THEN Failed(b, "AlreadyExistsError")
    ELSE LET path == IF pm = NoneStr THEN path_metadata[c] ELSE pm
             r1 == upload_metadata(c, b, f, path, refuse)
             r2 == Then(r1, upload_data(c, r1.bucket, f, pd, refuse))
             r3 == Then(r2, upload_label(c, r2.bucket, f, pl, refuse))
         IN  Then(r3, update_dataset_list(c, r3.bucket))

\* _upload(), the whole call
Upload(c, pd, pl, pm, refuse) ==
    /\ Ready(c)
    /\ LET r == upload(c, bucket, fs, pd, pl, pm, refuse) IN
        /\ bucket' = r.bucket
        /\ uploaded' = [uploaded EXCEPT ![c] =
                          IF r.out = "ok"
                          THEN [path_data |-> pd, path_label |-> pl,
                                name |-> metadata[c].name,
                                metadata |-> FileBytes(fs, IF pm = NoneStr
                                                           THEN path_metadata[c] ELSE pm)]
                          ELSE @]
        /\ last' = Step(c, "_upload", r.out,
                        IF r.out = "AlreadyExistsError" THEN SelfName(c) ELSE NoneStr,
                        r.puts, {}, r.bucket, fs)
    /\ UNCHANGED <<cfg, alive, path_metadata, metadata, fs, dirs>>

\* a call of one of the upload-class methods on its own
Call(c, op, r) ==
    /\ Ready(c)
    /\ bucket' = r.bucket
    /\ last' = Step(c, op, r.out, NoneStr, r.puts, {}, r.bucket, fs)
    /\ UNCHANGED <<cfg, alive, path_metadata, metadata, fs, dirs, uploaded>>

CallUploadMetadata(c, path, refuse) ==
    Call(c, "_upload_metadata", upload_metadata(c, bucket, fs, path, refuse))

CallUploadData(c, path, refuse) ==
    Call(c, "_upload_data", upload_data(c, bucket, fs, path, refuse))

CallUploadLabel(c, path, refuse) ==
    Call(c, "_upload_label", upload_label(c, bucket, fs, path, refuse))

CallUpdateDatasetList(c) ==
    Call(c, "_update_dataset_list", update_dataset_list(c, bucket))

\* __del__: the client is discarded
del(c, f) ==
    IF path_metadata[c] = NoneStr THEN [out |-> "ok", fs |-> f]
    ELSE IF path_metadata[c] \notin DOMAIN f THEN [out |-> "FileNotFoundError", fs |-> f]
    ELSE [out |-> "ok", fs |-> [p \in (DOMAIN f) \ {path_metadata[c]} |-> f[p]]]

Del(c) ==
    /\ Ready(c)
    /\ alive' = [alive EXCEPT ![c] = FALSE]
    /\ fs' = del(c, fs).fs
    /\ last' = Step(c, "__del__", del(c, fs).out, NoneStr, <<>>, {}, bucket, del(c, fs).fs)
    /\ UNCHANGED <<cfg, path_metadata, metadata, bucket, dirs, uploaded>>

NextCloud ==
    \E c \in Clients :
        \/ Download(c) /\ UNCHANGED <<pipeVars, inflight>>
        \/ GetExistingDataset(c) /\ UNCHANGED <<pipeVars, inflight>>
        \/ \E n \in MetaNameArgs : AddMetadata(c, n) /\ UNCHANGED <<pipeVars, inflight>>
        \/ \E e \in UploadExts, pm \in MetadataPathArgs, refuse \in BOOLEAN :
              Upload(c, DataPath(c, e[1]), LabelPath(c, e[2]), pm, refuse)
                 /\ UNCHANGED <<pipeVars, inflight>>
        \/ \E refuse \in BOOLEAN :
              CallUploadMetadata(c, path_metadata[c], refuse) /\ UNCHANGED <<pipeVars, inflight>>
        \/ \E e \in CallExts, refuse \in BOOLEAN :
              CallUploadData(c, DataPath(c, e), refuse) /\ UNCHANGED <<pipeVars, inflight>>
        \/ \E e \in CallExts, refuse \in BOOLEAN :
              CallUploadLabel(c, LabelPath(c, e), refuse) /\ UNCHANGED <<pipeVars, inflight>>
        \/ CallUpdateDatasetList(c) /\ UNCHANGED <<pipeVars, inflight>>
        \/ Del(c) /\ UNCHANGED <<pipeVars, inflight>>

\* ------------------------------------------------- _upload, call by call
\* The calls _upload makes, one step each, so that the calls of two clients
\* interleave.  A client makes one _upload.
UploadArgs(c) ==
    [path_data |-> inflight[c].path_data, path_label |-> inflight[c].path_label,
     name |-> metadata[c].name,
     metadata |-> inflight[c].sent]

\* the _upload of c ends: it returns, or raises out
UploadEnds(c, out, puts, b2) ==
    /\ inflight' = [inflight EXCEPT ![c] = InFlight("ended", @.path_data, @.path_label,
                                                   @.path_metadata, puts, @.sent)]
    /\ uploaded' = [uploaded EXCEPT ![c] = IF out = "ok" THEN UploadArgs(c) ELSE @]
    /\ last' = Step(c, "_upload", out,
                    IF out = "AlreadyExistsError" THEN SelfName(c) ELSE NoneStr,
                    puts, {}, b2, fs)

\* _upload up to its first write, had a passed check left a blob under the name
UploadBegin_reserving(c, pd, pl, pm) ==
    /\ alive[c]
    /\ inflight[c].at = "none"
    /\ IF ~check_public_access(c)
       THEN /\ inflight' = [inflight EXCEPT ![c] = InFlight("ended", pd, pl, pm, <<>>, NotInFlight.sent)]
            /\ last' = Step(c, "_upload", "PublicAccessError", NoneStr, <<>>, {}, bucket, fs)
            /\ UNCHANGED bucket
       ELSE IF upload_exists(c, bucket)
       THEN /\ inflight' = [inflight EXCEPT ![c] = InFlight("ended", pd, pl, pm, <<>>, NotInFlight.sent)]
            /\ last' = Step(c, "_upload", "AlreadyExistsError", SelfName(c), <<>>, {},
                            bucket, fs)
            /\ UNCHANGED bucket
       ELSE /\ inflight' = [inflight EXCEPT ![c] =
                              InFlight("_upload_metadata", pd, pl,
                                       IF pm = NoneStr THEN path_metadata[c] ELSE pm, <<>>,
                                       NotInFlight.sent)]
            /\ bucket' = (Join(SelfName(c), <<"reserved">>) :> Bytes(NoneStr, {}, FALSE))
                              @@ bucket
            /\ UNCHANGED last
    /\ UNCHANGED <<cfg, alive, path_metadata, metadata, fs, dirs, nOps, uploaded>>

\* _upload up to its first write: the access check, the listing, the lookup
UploadBegin(c, pd, pl, pm) ==
    /\ alive[c]
    /\ inflight[c].at = "none"
    /\ IF ~check_public_access(c)
       THEN /\ inflight' = [inflight EXCEPT ![c] = InFlight("ended", pd, pl, pm, <<>>, NotInFlight.sent)]
            /\ last' = Step(c, "_upload", "PublicAccessError", NoneStr, <<>>, {}, bucket, fs)
       ELSE IF upload_exists(c, bucket)
       THEN /\ inflight' = [inflight EXCEPT ![c] = InFlight("ended", pd, pl, pm, <<>>, NotInFlight.sent)]
            /\ last' = Step(c, "_upload", "AlreadyExistsError", SelfName(c), <<>>, {},
                            bucket, fs)
       ELSE /\ inflight' = [inflight EXCEPT ![c] =
                              InFlight("_upload_metadata", pd, pl,
                                       IF pm = NoneStr THEN path_metadata[c] ELSE pm, <<>>,
                                       NotInFlight.sent)]
            /\ UNCHANGED last
    /\ UNCHANGED <<cfg, alive, path_metadata, metadata, bucket, fs, dirs, nOps, uploaded>>

\* one of the calls of _upload: r is what it does, next the call after it
UploadCall(c, r, next) ==
    /\ bucket' = r.bucket
    /\ IF r.out = "ok" /\ next # "ended"
       THEN /\ inflight' = [inflight EXCEPT ![c] =
                              [@ EXCEPT !.at = next, !.puts = @ \o r.puts,
                                        !.sent = IF inflight[c].at = "_upload_metadata"
                                                 THEN FileBytes(fs, inflight[c].path_metadata)
                                                 ELSE @]]
            /\ UNCHANGED <<uploaded, last>>
       ELSE UploadEnds(c, r.out, inflight[c].puts \o r.puts, r.bucket)
    /\ UNCHANGED <<cfg, alive, path_metadata, metadata, fs, dirs, nOps>>

\* the metadata call, had _upload gone on to the labels and left the data out
UploadMetadataStep_then_label(c, refuse) ==
    /\ inflight[c].at = "_upload_metadata"
    /\ UploadCall(c, upload_metadata(c, bucket, fs, inflight[c].path_metadata, refuse),
                  "_upload_label")

\* _upload_metadata(path_metadata), then on to _upload_data
UploadMetadataStep(c, refuse) ==
    /\ inflight[c].at = "_upload_metadata"
    /\ UploadCall(c, upload_metadata(c, bucket, fs, inflight[c].path_metadata, refuse),
                  "_upload_data")

UploadDataStep(c, refuse) ==
    /\ inflight[c].at = "_upload_data"
    /\ UploadCall(c, upload_data(c, bucket, fs, inflight[c].path_data, refuse),
                  "_upload_label")

UploadLabelStep(c, refuse) ==
    /\ inflight[c].at = "_upload_label"
    /\ UploadCall(c, upload_label(c, bucket, fs, inflight[c].path_label, refuse),
                  "_update_dataset_list")

UpdateListStep(c) ==
    /\ inflight[c].at = "_update_dataset_list"
    /\ UploadCall(c, update_dataset_list(c, bucket), "ended")

\* the next call of the _upload of c under way
UploadStep(c) ==
    \/ \E refuse \in BOOLEAN : UploadMetadataStep(c, refuse)
    \/ \E refuse \in BOOLEAN : UploadDataStep(c, refuse)
    \/ \E refuse \in BOOLEAN : UploadLabelStep(c, refuse)
    \/ UpdateListStep(c)

\* between calls of _upload: no call of c is under way
Between(c) == inflight[c].at \in {"none", "ended"}

\* A client builds its metadata before its _upload and is discarded before
\* or after it.
NextRace ==
    \E c \in Clients :
        \/ \E n \in MetaNameArgs :
              inflight[c].at = "none" /\ AddMetadata(c, n) /\ UNCHANGED <<pipeVars, inflight>>
        \/ \E e \in UploadExts, pm \in MetadataPathArgs :
              UploadBegin(c, DataPath(c, e[1]), LabelPath(c, e[2]), pm)
                 /\ UNCHANGED pipeVars
        \/ \E refuse \in BOOLEAN : UploadMetadataStep(c, refuse) /\ UNCHANGED pipeVars
        \/ \E refuse \in BOOLEAN : UploadDataStep(c, refuse) /\ UNCHANGED pipeVars
        \/ \E refuse \in BOOLEAN : UploadLabelStep(c, refuse) /\ UNCHANGED pipeVars
        \/ UpdateListStep(c) /\ UNCHANGED pipeVars
        \/ Between(c) /\ Del(c) /\ UNCHANGED <<pipeVars, inflight>>

\* ---------------------------------------------------------------- Pipeline
k_folds == 5
MaxLen == 6
MaxBatch == 5
MaxOutputs == 2
MaxEpochs == 3
MaxLoss == 1
MaxTrain == 2

\* A loss or an accuracy: the rational num/den.
Rat(n, d) == [num |-> n, den |-> d]
RatEq(x, y) == x.num * y.den = y.num * x.den
RatLe(x, y) == x.num * y.den <= y.num * x.den
RatAdd(x, y) == Rat(x.num * y.den + y.num * x.den, x.den * y.den)

RECURSIVE RatSum(_)
RatSum(s) == IF s = <<>> THEN Rat(0, 1) ELSE RatAdd(Head(s), RatSum(Tail(s)))

\* np.mean(list)
np_mean(s) == Rat(RatSum(s).num, RatSum(s).den * Len(s))

\* the imports of pipeline.py, had numpy been among them
NumpyImported_present == TRUE

\* pipeline.py imports torch, time, warnings, KFold, SubsetRandomSampler and
\* PreprocessText: the name np that train uses is bound nowhere
NumpyImported == FALSE

\* A DataLoader over a dataset of size samples in batches of batch; None
Loader(size, batch) == [none |-> FALSE, size |-> size, batch |-> batch]
NoneLoader == [none |-> TRUE, size |-> 0, batch |-> 1]

CeilDiv(n, b) == (n + b - 1) \div b

\* len(DataLoader)
LoaderLen(dl) == CeilDiv(dl.size, dl.batch)

\* KFold(5, shuffle=False).split(range(n)): the first n % 5 folds hold one
\* index more than the n // 5 of the others; fold i is range(start, start + size)
fold_sizes_floor(n, i) == n \div k_folds

fold_sizes(n, i) == (n \div k_folds) + (IF i <= n % k_folds THEN 1 ELSE 0)

RECURSIVE fold_start(_, _)
fold_start(n, i) == IF i = 1 THEN 0 ELSE fold_start(n, i - 1) + fold_sizes(n, i - 1)

KFoldSplit(n, i) ==
    LET test == fold_start(n, i) .. (fold_start(n, i) + fold_sizes(n, i) - 1)
    IN  [tr_idx |-> (0 .. (n - 1)) \ test, val_idx |-> test]

\* one next() of the generator fold.split(data_idx), after the pairs in yielded
split_next(n, yielded) ==
    IF n < k_folds THEN [out |-> "ValueError", yielded |-> yielded]
    ELSE IF Len(yielded) = k_folds THEN [out |-> "stop", yielded |-> yielded]
    ELSE [out |-> "yield", yielded |-> Append(yielded, KFoldSplit(n, Len(yielded) + 1))]

\* data_idx = list(range(len(self.dataloaders[0]) * batch_size))
Universe == LoaderLen(dataloaders[1]) * call.batch_size

\* The calls _train_loop makes for one batch, in the order of its loop body,
\* and those of _val_loop, which runs under torch.no_grad().
train_batch == <<"model", "loss_fn", "add_scalar", "zero_grad", "backward", "step">>
\* the calls of _val_loop for one batch, had it let the optimizer step
val_batch_stepping == <<"model", "loss_fn", "step">>
val_batch == <<"model", "loss_fn">>

RECURSIVE Repeat(_, _)
Repeat(s, n) == IF n <= 0 THEN <<>> ELSE s \o Repeat(s, n - 1)

\* _train_loop(dl): size is len(dl.dataset), idx the samples the loader's
\* sampler yields in batches of batch, correct the number of entries of
\* pred.argmax(1) == y that are true over the pass, loss the loss of a batch
train_loop(loader, size, idx, batch, correct, loss) ==
    [kind |-> "train", loader |-> loader, n |-> Cardinality(idx), size |-> size,
     steps |-> CeilDiv(Cardinality(idx), batch), correct |-> correct,
     fault |-> IF \E i \in idx : i >= size THEN "IndexError" ELSE "",
     loss |-> Rat(IF idx = {} THEN -100 ELSE loss, 1),
     acc |-> Rat(correct, size),
     idx |-> idx,
     calls |-> Repeat(train_batch, CeilDiv(Cardinality(idx), batch))]

\* _val_loop(dl): the losses of the batches add up, the accuracy is a percentage
val_loop(loader, size, idx, batch, correct, loss) ==
    [kind |-> "eval", loader |-> loader, n |-> Cardinality(idx), size |-> size,
     steps |-> CeilDiv(Cardinality(idx), batch), correct |-> correct,
     fault |-> IF \E i \in idx : i >= size THEN "IndexError"
               ELSE IF idx = {} THEN "RuntimeError" ELSE "",
     loss |-> Rat(loss * CeilDiv(Cardinality(idx), batch), 1),
     acc |-> Rat(100 * correct, size),
     idx |-> idx,
     calls |-> IF idx = {} \/ \E i \in idx : i >= size THEN <<>>
               ELSE Repeat(val_batch, CeilDiv(Cardinality(idx), batch))]

NoPass ==
    [kind |-> "none", loader |-> "none", n |-> 0, size |-> 0, steps |-> 0, correct |-> 0,
     fault |-> "", loss |-> Rat(0, 1), acc |-> Rat(0, 1), idx |-> {}, calls |-> <<>>]

\* valloss, valacc, had train started them at -1, 0 in either mode
Unbound_defaulted == [bound |-> TRUE, loss |-> Rat(-1, 1), acc |-> Rat(0, 1)]

\* train's locals valloss, valacc: not yet assigned; assigned
Unbound == [bound |-> FALSE, loss |-> Rat(0, 1), acc |-> Rat(0, 1)]
Bound(loss, acc) == [bound |-> TRUE, loss |-> loss, acc |-> acc]

NoResult == [kind |-> "none", fault |-> "", loss |-> Rat(0, 1), acc |-> Rat(0, 1)]
Returned(v) == [kind |-> "pair", fault |-> "", loss |-> v.loss, acc |-> v.acc]
Raised(why) == [kind |-> "fault", fault |-> why, loss |-> Rat(0, 1), acc |-> Rat(0, 1)]

\* No reset_epoch since the last train call; a reset_epoch, and the counters
\* it found.
NoReset == [done |-> FALSE, train_epoch |-> 0, val_epoch |-> 0]
WasReset(te, ve) == [done |-> TRUE, train_epoch |-> te, val_epoch |-> ve]

\* A train call: its arguments, the counters it found, the reset before it.
TrainCall(n_epochs, cv, bs, te, ve, reset) ==
    [n_epochs |-> n_epochs, cross_validation |-> cv, batch_size |-> bs,
     train_epoch0 |-> te, val_epoch0 |-> ve, afterReset |-> reset]

NoCall == TrainCall(0, FALSE, 1, 0, 0, NoReset)

\* the step indices _train_loop hands to writer.add_scalar in a pass of
\* steps batches that starts with self.train_epoch = e and self.train_cycle = c:
\* self.train_epoch*batch + self.train_cycle, train_cycle growing by one a batch
StepIndices(e, c, steps) == [b \in 1..steps |-> e * (b - 1) + (c + (b - 1))]

\* self.optimizer before the first train call; the optimizer a train call
\* builds; the optimizer after a sequence of calls made in a pass.
NoOptimizer == [built |-> 0, zero_grad |-> 0, backward |-> 0, step |-> 0]
NewOptimizer == [built |-> 1, zero_grad |-> 0, backward |-> 0, step |-> 0]

Count(s, x) == Cardinality({i \in 1..Len(s) : s[i] = x})

After(opt, calls) ==
    [opt EXCEPT !.zero_grad = @ + Count(calls, "zero_grad"),
                !.backward = @ + Count(calls, "backward"),
                !.step = @ + Count(calls, "step")]

\* The entry of a completed pass p in the log: the epoch counter it read
\* (train_epoch in _train_loop, val_epoch in _val_loop), the step indices
\* of its running-loss scalars and the samples it iterated.
Logged(p, e, c) ==
    [kind |-> p.kind, loader |-> p.loader, epoch |-> e, idx |-> p.idx,
     steps |-> IF p.kind = "train" THEN StepIndices(e, c, p.steps) ELSE <<>>]

\* The caller's inputs.
DatasetLens == (MaxLen - 1)..MaxLen
LoaderBatches == {2, MaxBatch}
BatchSizes == {2, MaxBatch}
OtherLoaders == {NoneLoader, Loader(2, 2)}
LoaderSets ==
    {<<Loader(n, b)>> \o rest :
        n \in DatasetLens, b \in LoaderBatches,
        rest \in {<<>>} \cup {<<x>> : x \in OtherLoaders}
                   \cup {<<x, y>> : x \in OtherLoaders, y \in OtherLoaders}}

\* Pipeline.__init__
InitPipe ==
    /\ dataloaders \in LoaderSets
    /\ outputs \in 1..MaxOutputs
    /\ train_epoch = 0
    /\ val_epoch = 0
    /\ train_cycle = 0
    /\ ppc = "idle"
    /\ call = NoCall
    /\ t = 0
    /\ folds = <<>>
    /\ mean_val_loss = <<>>
    /\ mean_val_acc = <<>>
    /\ val = Unbound
    /\ nWarnings = 0
    /\ lastPass = NoPass
    /\ result = NoResult
    /\ nTrain = 0
    /\ passes = <<>>
    /\ lastReset = NoReset
    /\ optimizer = NoOptimizer

\* reset_epoch, had it zeroed train_epoch only
ResetEpoch_train_only ==
    /\ ppc = "idle"
    /\ train_epoch' = 0
    /\ lastReset' = WasReset(train_epoch, val_epoch)
    /\ UNCHANGED <<dataloaders, outputs, val_epoch, train_cycle, ppc, call, t, folds,
                   mean_val_loss, mean_val_acc, val, nWarnings, lastPass, result, nTrain,
                   passes,
                   optimizer>>

\* reset_epoch
ResetEpoch ==
    /\ ppc = "idle"
    /\ train_epoch' = 0
    /\ val_epoch' = 0
    /\ lastReset' = WasReset(train_epoch, val_epoch)
    /\ UNCHANGED <<dataloaders, outputs, train_cycle, ppc, call, t, folds, mean_val_loss,
                   mean_val_acc, val, nWarnings, lastPass, result, nTrain, passes,
                   optimizer>>

\* AfterLoop, had the test after the epoch loop been run whenever there is a
\* second loader
AfterLoop_any_second_loader == IF Len(dataloaders) >= 2 THEN "test" ELSE "return"

\* where train goes after the epoch loop of a call without cross-validation
AfterLoop == IF Len(dataloaders) = 2 THEN "test" ELSE "return"

\* train(optimizer, n_epochs, cross_validation, batch_size) up to its loops
TrainStart(n_epochs, cv, bs) ==
    /\ ppc = "idle"
    /\ nTrain < MaxTrain
    /\ nTrain' = nTrain + 1
    /\ call' = TrainCall(n_epochs, cv, bs, train_epoch, val_epoch, lastReset)
    /\ lastReset' = NoReset
    /\ passes' = <<>>
    /\ lastPass' = NoPass
    /\ nWarnings' = 0
    /\ folds' = <<>>
    /\ mean_val_loss' = <<>>
    /\ mean_val_acc' = <<>>
    /\ t' = 0
    /\ result' = NoResult
    /\ val' = IF cv THEN Bound(Rat(-1, 1), Rat(0, 1)) ELSE Unbound
    /\ ppc' = IF cv THEN "split" ELSE IF n_epochs > 0 THEN "train" ELSE AfterLoop
    /\ UNCHANGED <<dataloaders, outputs, train_epoch, val_epoch, train_cycle>>
    /\ optimizer' = NewOptimizer

\* the call ends in an exception
Fault(why) ==
    /\ result' = Raised(why)
    /\ ppc' = "idle"

\* for fold, (tr_idx, val_idx) in enumerate(fold.split(data_idx)): the next
\* pair, the warning, the two loaders
FoldNext ==
    /\ ppc = "split"
    /\ LET g == split_next(Universe, folds) IN
        /\ folds' = g.yielded
        /\ IF g.out = "ValueError" THEN Fault("ValueError") /\ UNCHANGED nWarnings
           ELSE IF g.out = "stop"
           THEN ppc' = "return" /\ UNCHANGED <<result, nWarnings>>
           ELSE /\ nWarnings' = nWarnings + (IF Len(dataloaders) = 3 THEN 1 ELSE 0)
                /\ ppc' = IF call.n_epochs > 0 THEN "cv_train" ELSE "fold_end"
                /\ UNCHANGED result
    /\ t' = 0
    /\ UNCHANGED <<dataloaders, outputs, train_epoch, val_epoch, train_cycle, call,
                   mean_val_loss, mean_val_acc, val, lastPass, nTrain, passes, lastReset,
                   optimizer>>

\* The entries of pred.argmax(1) == y that are true over a pass of n samples:
\* none, as many as there are samples, all of them.
Matches(n) == {0, n, n * outputs}

\* A pass that raised: the batches before the failing one were trained on.
PassFault(p, done) ==
    /\ lastPass' = [p EXCEPT !.calls = Repeat(train_batch, done)]
    /\ train_cycle' = train_cycle + done
    /\ Fault(p.fault)
    /\ UNCHANGED passes

\* cross-validation, one epoch of a fold: self._train_loop(dl_tr)
CvTrainPass(correct, loss, done) ==
    /\ ppc = "cv_train"
    /\ val_epoch' = t
    /\ train_epoch' = t
    /\ LET idx == folds[Len(folds)].tr_idx
           p == train_loop("fold_tr", dataloaders[1].size, idx, call.batch_size,
                           correct, loss)
       IN  /\ correct \in Matches(p.n)
           /\ IF p.fault # ""
              THEN done < p.steps /\ PassFault(p, done)
              ELSE /\ done = 0
                   /\ lastPass' = p
                   /\ train_cycle' = train_cycle + p.steps
                   /\ passes' = Append(passes, Logged(p, t, train_cycle))
                   /\ ppc' = "cv_val"
                   /\ UNCHANGED result
    /\ UNCHANGED <<dataloaders, outputs, call, t, folds, mean_val_loss, mean_val_acc, val,
                   nWarnings, nTrain, lastReset>>
    /\ optimizer' = After(optimizer, lastPass'.calls)

\* cross-validation, one epoch of a fold: valloss, valacc = self._val_loop(dl_val)
CvEvalPass(correct, loss) ==
    /\ ppc = "cv_val"
    /\ LET idx == folds[Len(folds)].val_idx
           p == val_loop("fold_val", dataloaders[1].size, idx, call.batch_size,
                         correct, loss)
       IN  /\ correct \in Matches(p.n)
           /\ lastPass' = p
           /\ IF p.fault # ""
              THEN Fault(p.fault) /\ UNCHANGED <<val, t, passes>>
              ELSE /\ val' = Bound(p.loss, p.acc)
                   /\ passes' = Append(passes, Logged(p, val_epoch, train_cycle))
                   /\ t' = t + 1
                   /\ ppc' = IF t + 1 < call.n_epochs THEN "cv_train" ELSE "fold_end"
                   /\ UNCHANGED result
    /\ UNCHANGED <<dataloaders, outputs, train_epoch, val_epoch, train_cycle, call, folds,
                   mean_val_loss, mean_val_acc, nWarnings, nTrain, lastReset>>
    /\ optimizer' = After(optimizer, lastPass'.calls)

\* the end of a fold: the two appends, the two np.mean
FoldEnd ==
    /\ ppc = "fold_end"
    /\ mean_val_loss' = Append(mean_val_loss, val.loss)
    /\ mean_val_acc' = Append(mean_val_acc, val.acc)
    /\ IF NumpyImported
       THEN /\ val' = Bound(np_mean(Append(mean_val_loss, val.loss)),
                            np_mean(Append(mean_val_acc, val.acc)))
            /\ ppc' = "split"
            /\ UNCHANGED result
       ELSE Fault("NameError") /\ UNCHANGED val
    /\ UNCHANGED <<dataloaders, outputs, train_epoch, val_epoch, train_cycle, call, t,
                   folds, nWarnings, lastPass, nTrain, passes, lastReset,
                   optimizer>>

\* the next epoch of a call without cross-validation, after epoch t
NextEpoch ==
    /\ train_epoch' = t
    /\ t' = t + 1
    /\ ppc' = IF t + 1 < call.n_epochs THEN "train" ELSE AfterLoop

\* no cross-validation, one epoch: self._train_loop(dl_tr)
PlainTrainPass(correct, loss) ==
    /\ ppc = "train"
    /\ LET dl == dataloaders[1]
           p == train_loop("dl1", dl.size, 0 .. (dl.size - 1), dl.batch, correct, loss)
       IN  /\ correct \in Matches(p.n)
           /\ lastPass' = p
           /\ train_cycle' = train_cycle + p.steps
           /\ passes' = Append(passes, Logged(p, train_epoch, train_cycle))
    /\ IF Len(dataloaders) = 3
       THEN ppc' = "val" /\ UNCHANGED <<train_epoch, t>>
       ELSE NextEpoch
    /\ UNCHANGED <<dataloaders, outputs, val_epoch, call, folds, mean_val_loss,
                   mean_val_acc, val, nWarnings, result, nTrain, lastReset>>
    /\ optimizer' = After(optimizer, lastPass'.calls)

\* self._val_loop(dl) on an entry of self.dataloaders
EvalOn(i, correct, loss) ==
    LET dl == dataloaders[i]
        p == val_loop(IF i = 2 THEN "dl2" ELSE "dl3", dl.size, 0 .. (dl.size - 1),
                      dl.batch, correct, loss)
    IN  IF dl.none THEN [p EXCEPT !.fault = "AttributeError", !.calls = <<>>] ELSE p

\* no cross-validation, three loaders: valloss, valacc = self._val_loop(dl_val)
PlainEvalPass(correct, loss) ==
    /\ ppc = "val"
    /\ LET p == EvalOn(2, correct, loss) IN
        /\ correct \in Matches(p.n)
        /\ lastPass' = p
        /\ IF p.fault # ""
           THEN Fault(p.fault) /\ UNCHANGED <<val, val_epoch, train_epoch, t, passes>>
           ELSE /\ val' = Bound(p.loss, p.acc)
                /\ passes' = Append(passes, Logged(p, val_epoch, train_cycle))
                /\ val_epoch' = t
                /\ NextEpoch
                /\ UNCHANGED result
    /\ UNCHANGED <<dataloaders, outputs, train_cycle, call, folds, mean_val_loss,
                   mean_val_acc, nWarnings, nTrain, lastReset>>
    /\ optimizer' = After(optimizer, lastPass'.calls)

\* no cross-validation, two loaders: the test after the epoch loop
TestPass(correct, loss) ==
    /\ ppc = "test"
    /\ LET p == EvalOn(2, correct, loss) IN
        /\ correct \in Matches(p.n)
        /\ lastPass' = p
        /\ IF p.fault # ""
           THEN Fault(p.fault) /\ UNCHANGED <<val, passes>>
           ELSE /\ val' = Bound(p.loss, p.acc)
                /\ passes' = Append(passes, Logged(p, val_epoch, train_cycle))
                /\ ppc' = "return"
                /\ UNCHANGED result
    /\ UNCHANGED <<dataloaders, outputs, train_epoch, val_epoch, train_cycle, call, t,
                   folds, mean_val_loss, mean_val_acc, nWarnings, nTrain, lastReset>>
    /\ optimizer' = After(optimizer, lastPass'.calls)

\* return valloss, valacc
TrainReturn ==
    /\ ppc = "return"
    /\ ppc' = "idle"
    /\ result' = IF val.bound THEN Returned(val) ELSE Raised("UnboundLocalError")
    /\ UNCHANGED <<dataloaders, outputs, train_epoch, val_epoch, train_cycle, call, t,
                   folds, mean_val_loss, mean_val_acc, val, nWarnings, lastPass, nTrain,
                   passes, lastReset,
                   optimizer>>

Corrects == 0 .. (MaxLen * MaxOutputs)
Losses == 0 .. MaxLoss

NextPipe ==
    \/ ResetEpoch /\ UNCHANGED cloudVars
    \/ \E n \in 0..MaxEpochs, cv \in BOOLEAN, bs \in BatchSizes :
          TrainStart(n, cv, bs) /\ UNCHANGED cloudVars
    \/ FoldNext /\ UNCHANGED cloudVars
    \/ \E correct \in Corrects, loss \in Losses, done \in 0..MaxLen :
          CvTrainPass(correct, loss, done) /\ UNCHANGED cloudVars
    \/ \E correct \in Corrects, loss \in Losses :
          CvEvalPass(correct, loss) /\ UNCHANGED cloudVars
    \/ FoldEnd /\ UNCHANGED cloudVars
    \/ \E correct \in Corrects, loss \in Losses :
          PlainTrainPass(correct, loss) /\ UNCHANGED cloudVars
    \/ \E correct \in Corrects, loss \in Losses :
          PlainEvalPass(correct, loss) /\ UNCHANGED cloudVars
    \/ \E correct \in Corrects, loss \in Losses :
          TestPass(correct, loss) /\ UNCHANGED cloudVars
    \/ TrainReturn /\ UNCHANGED cloudVars

\* ---------------------------------------------------------- specifications
\* Each specification runs one component; the other stays as constructed.
ParkedPipe ==
    /\ InitPipe
    /\ dataloaders = <<Loader(MaxLen, 2)>>
    /\ outputs = 1

ParkedCloud ==
    /\ InitCloud
    /\ cfg = [c \in Clients |->
                [use_public_access |-> FALSE, make_public |-> TRUE,
                 dataset_name |-> <<"toy">>]]
    /\ bucket = EmptyBucket

InitCloudAlone ==
    /\ InitCloud
    /\ ParkedPipe

SpecCloud == InitCloudAlone /\ [][NextCloud]_vars

InitPipeAlone ==
    /\ InitPipe
    /\ ParkedCloud

SpecPipe == InitPipeAlone /\ [][NextPipe]_vars

\* The clients of SpecCloud, their _upload taken call by call.
SpecRace == InitCloudAlone /\ [][NextRace]_vars

\* The split alone: a cross-validated call stands at its for statement, and
\* the generator is asked for pair after pair.
InitFold ==
    /\ ParkedCloud
    /\ dataloaders \in {<<Loader(n, b)>> : n \in 1..MaxLen, b \in 1..MaxBatch}
    /\ call \in {TrainCall(0, TRUE, bs, 0, 0, NoReset) : bs \in 1..MaxBatch}
    /\ ppc = "split"
    /\ outputs = 1
    /\ train_epoch = 0
    /\ val_epoch = 0
    /\ train_cycle = 0
    /\ t = 0
    /\ folds = <<>>
    /\ mean_val_loss = <<>>
    /\ mean_val_acc = <<>>
    /\ val = Bound(Rat(-1, 1), Rat(0, 1))
    /\ nWarnings = 0
    /\ lastPass = NoPass
    /\ result = NoResult
    /\ nTrain = 1
    /\ passes = <<>>
    /\ lastReset = NoReset
    /\ optimizer = NewOptimizer

SplitStep ==
    /\ ppc = "split"
    /\ split_next(Universe, folds).out = "yield"
    /\ folds' = split_next(Universe, folds).yielded
    /\ UNCHANGED <<dataloaders, outputs, train_epoch, val_epoch, train_cycle, ppc, call, t,
                   mean_val_loss, mean_val_acc, val, nWarnings, lastPass, result, nTrain,
                   passes, lastReset,
                   optimizer>>

SplitEnd ==
    /\ ppc = "split"
    /\ split_next(Universe, folds).out # "yield"
    /\ ppc' = "idle"
    /\ result' = IF split_next(Universe, folds).out = "stop" THEN NoResult
                 ELSE Raised(split_next(Universe, folds).out)
    /\ UNCHANGED <<dataloaders, outputs, train_epoch, val_epoch, train_cycle, call, t,
                   folds, mean_val_loss, mean_val_acc, val, nWarnings, lastPass, nTrain,
                   passes, lastReset,
                   optimizer>>

NextFold ==
    \/ SplitStep /\ UNCHANGED cloudVars
    \/ SplitEnd /\ UNCHANGED cloudVars

SpecFold == InitFold /\ [][NextFold]_vars

\* ------------------------------------------------------------------ claims
Authenticated(c) == c \in Clients /\ ~cfg[c].use_public_access
Public(c) == c \in Clients /\ cfg[c].use_public_access

\* C1: download() of a name that is in the remote listing while the local
\* dataset directory already exists fetches no file and changes no file of
\* that directory.  (The code fetches the files again: see the trace.)
C1_DownloadSkipsExisting ==
    (last.op = "download" /\ last.listed /\ last.hadDir)
        => (last.gets = {} /\ last.changed = {} /\ last.created = {})

\* C2: _upload by an authenticated client on a name that is in the listing of
\* the bucket fails with the already-exists error, which names the dataset,
\* and has written no blob: the bucket is as it was before the call.
C2_UploadExistingRejected ==
    (last.op = "_upload" /\ Authenticated(last.c) /\ last.inRaw)
        => /\ last.out = "AlreadyExistsError"
           /\ last.errName = SelfName(last.c)
           /\ last.puts = <<>>
           /\ last.touched = {}

C2_Witness ==
    /\ last.op = "_upload" /\ Authenticated(last.c) /\ last.inRaw
    /\ last.out = "AlreadyExistsError"
    /\ metadata[last.c].set

\* C3: download() of a name absent from the listing it reads (datasets.json
\* for a public client, the bucket's blobs for an authenticated one) fails
\* with an error that names the dataset; no dataset directory has been
\* created and no file fetched or written.
C3_DownloadAbsentFails ==
    (last.op = "download" /\ ~last.listed)
        => /\ last.out = "NotFoundError"
           /\ last.errName = SelfName(last.c)
           /\ last.gets = {}
           /\ last.changed = {} /\ last.created = {}
           /\ check_dataset_exists_locally(last.c, dirs) = last.hadDir

C3_Witness ==
    /\ last.op = "download" /\ ~last.listed /\ last.out = "NotFoundError"
    /\ Authenticated(last.c)
    /\ ~check_dataset_exists_locally(last.c, dirs)
    /\ \E k \in DOMAIN bucket : Len(k) > 3

\* C4: every upload-class call of a public client fails as a precondition
\* failure (the access check, or the check of the file type), and has
\* written no blob and no local file.  (_upload_label makes no access check.)
UploadClassOps ==
    {"_upload", "_upload_metadata", "_upload_data", "_upload_label", "_add_metadata",
     "_update_dataset_list"}
PreconditionFailures == {"PublicAccessError", "FileTypeError"}

C4_PublicUploadsArePreconditionFailures ==
    (last.op \in UploadClassOps /\ Public(last.c))
        => /\ last.out \in PreconditionFailures
           /\ last.touched = {} /\ last.puts = <<>>
           /\ last.changed = {} /\ last.created = {}

\* C5: after an _upload of a public dataset under the client's own name has
\* returned, a download of that name into a directory that does not exist yet
\* (by a client in either mode) succeeds and leaves data, labels and
\* metadata.json with the uploaded contents, and the name is in
\* get_existing_dataset().  (A public client asks for data.pt and labels.pt
\* whatever was uploaded: see the trace.)
SameContent(x, y) == x.origin = y.origin /\ x.names = y.names

Downloaded(c, file) == Join(Join(DownloadDir, SelfName(c)), file)

HoldsUpload(c, u) ==
    LET dfile == <<"data", ".">> \o get_filetype(uploaded[u].path_data)
        lfile == <<"labels", ".">> \o get_filetype(uploaded[u].path_label)
    IN  /\ {Downloaded(c, dfile), Downloaded(c, lfile), Downloaded(c, MetadataJson)}
              \subseteq DOMAIN fs
        /\ SameContent(fs[Downloaded(c, dfile)], FileBytes(fs, uploaded[u].path_data))
        /\ SameContent(fs[Downloaded(c, lfile)], FileBytes(fs, uploaded[u].path_label))
        /\ SameContent(fs[Downloaded(c, MetadataJson)], uploaded[u].metadata)

C5_RoundTrip ==
    \A u \in Clients :
        (/\ last.op = "download" /\ ~last.hadDir
         /\ uploaded[u] # NoArgs
         /\ uploaded[u].name = SelfName(u)
         /\ ~StartsWithPrivate(SelfName(u))
         /\ SelfName(last.c) = SelfName(u))
            => /\ last.out = "ok"
               /\ HoldsUpload(last.c, u)
               /\ SelfName(u) \in get_existing_dataset(last.c, bucket).names

\* ------------------------------------------------------- claims, Pipeline
CvEnded == ppc = "idle" /\ nTrain > 0 /\ call.cross_validation

C7_ReturnsFoldMeans ==
    (/\ CvEnded
     /\ call.n_epochs >= 1
     /\ Universe = dataloaders[1].size
     /\ Universe >= k_folds) =>
        /\ result.kind = "pair"
        /\ Len(mean_val_loss) = k_folds
        /\ Len(mean_val_acc) = k_folds
        /\ RatEq(result.loss, np_mean(mean_val_loss))
        /\ RatEq(result.acc, np_mean(mean_val_acc))

\* C8: a cross-validated call on a 3-loader configuration emits exactly one
\* warning during the whole call, and runs no pass on the second or third
\* loader.
C8_OneWarning ==
    (CvEnded /\ Len(dataloaders) = 3) =>
        /\ nWarnings = 1
        /\ lastPass.loader \notin {"dl2", "dl3"}

\* C9: the accuracy a training pass returns lies in [0, 1] and the accuracy
\* an evaluation pass returns lies in [0, 100], labels with several outputs
\* per sample included.
C9_AccuracyInRange ==
    (lastPass.kind # "none" /\ lastPass.fault = "") =>
        /\ RatLe(Rat(0, 1), lastPass.acc)
        /\ RatLe(lastPass.acc, Rat(IF lastPass.kind = "train" THEN 1 ELSE 100, 1))

\* C10: a pass in which the argmax of the prediction equals the label for
\* every sample it iterates returns accuracy exactly 1 (training pass) or
\* exactly 100 (evaluation pass), the passes over the per-fold loaders
\* included; stated here for labels with one output per sample.
C10_AllCorrectIsFull ==
    (/\ lastPass.kind # "none"
     /\ lastPass.fault = ""
     /\ outputs = 1
     /\ lastPass.correct = lastPass.n) =>
        RatEq(lastPass.acc, Rat(IF lastPass.kind = "train" THEN 1 ELSE 100, 1))

\* C11: a cross-validated call with n_epochs = 2 on a single training loader,
\* batch_size being the loader's batch size (the universe holding 5 indices
\* or more), runs its 5 folds without a fault and returns a pair whose
\* accuracy lies in [0, 1].
C11_CrossValidationCompletes ==
    (/\ CvEnded
     /\ Len(dataloaders) = 1
     /\ call.n_epochs = 2
     /\ call.batch_size = dataloaders[1].batch
     /\ Universe >= k_folds) =>
        /\ result.kind = "pair"
        /\ Len(folds) = k_folds
        /\ RatLe(Rat(0, 1), result.acc)
        /\ RatLe(result.acc, Rat(1, 1))

\* The passes a call without cross-validation is to run, in order: n
\* training passes on the first loader, each followed by an evaluation pass
\* on the second when there are 3 loaders; one evaluation pass on the second
\* after them when there are 2.
PlainPlan(n, loaders) ==
    [i \in 1..(n * (IF loaders = 3 THEN 2 ELSE 1) + (IF loaders = 2 THEN 1 ELSE 0)) |->
        IF (loaders = 3 /\ i % 2 = 0) \/ (loaders # 3 /\ i > n)
        THEN [kind |-> "eval", loader |-> "dl2"]
        ELSE [kind |-> "train", loader |-> "dl1"]]

Follows(log, plan) ==
    /\ Len(log) <= Len(plan)
    /\ \A i \in 1..Len(log) :
          log[i].kind = plan[i].kind /\ log[i].loader = plan[i].loader

FirstReads(kind, e) ==
    \A i \in 1..Len(passes) :
        (passes[i].kind = kind /\ \A j \in 1..(i - 1) : passes[j].kind # kind)
            => passes[i].epoch = e

\* a step between two train calls: reset_epoch
ResetFrame ==
    (ppc = "idle" /\ ppc' = "idle") =>
        /\ train_epoch' = 0
        /\ val_epoch' = 0
        /\ UNCHANGED <<dataloaders, outputs, train_cycle, call, t, folds, mean_val_loss,
                       mean_val_acc, val, nWarnings, lastPass, result, nTrain, passes,
                       optimizer>>

AfterResetReadsZero ==
    call.afterReset.done => (FirstReads("train", 0) /\ FirstReads("eval", 0))

PlainReadsWhatWasLeft ==
    (nTrain > 0 /\ ~call.cross_validation) =>
        (FirstReads("train", call.train_epoch0) /\ FirstReads("eval", call.val_epoch0))

\* a step of a call without cross-validation sets no counter that was not 0 to 0
PlainNeverZeroes ==
    (ppc # "idle" /\ ~call.cross_validation) =>
        /\ train_epoch' = 0 => train_epoch = 0
        /\ val_epoch' = 0 => val_epoch = 0

\* C13: reset_epoch() sets train_epoch and val_epoch to 0 and changes
\* nothing else; after it the first training pass and the first evaluation
\* pass of the next train call read epoch counter 0; a call without
\* cross-validation leaves the counters alone until those passes, which read
\* the values the call before left.
C13_ResetEpochAmended ==
    /\ [][ResetFrame]_vars
    /\ [](AfterResetReadsZero /\ PlainReadsWhatWasLeft)

C13_Witness ==
    /\ call.afterReset.done
    /\ call.afterReset.train_epoch > 0
    /\ call.afterReset.val_epoch > 0
    /\ \E i \in 1..Len(passes) : passes[i].kind = "eval" /\ passes[i].epoch = 0
    /\ passes[1].kind = "train"
    /\ passes[1].epoch = 0

\* C13 as stated: moreover a call without cross-validation never zeroes the
\* counters itself.
C13_ResetEpoch ==
    /\ [][ResetFrame /\ PlainNeverZeroes]_vars
    /\ [](AfterResetReadsZero /\ PlainReadsWhatWasLeft)

\* the step indices of the training passes of a log, in the order emitted
RECURSIVE AllSteps(_)
AllSteps(log) == IF log = <<>> THEN <<>> ELSE Head(log).steps \o AllSteps(Tail(log))

Increasing(s) == \A i \in 1..(Len(s) - 1) : s[i] < s[i + 1]

\* C14: within one train call (here the first on the Pipeline) the step
\* index that goes with each running-loss scalar is greater than the one
\* emitted for the batch before, across epoch boundaries too.
C14_StepIndexIncreases ==
    nTrain = 1 => Increasing(AllSteps(passes))

EvalRan == \E i \in 1..Len(passes) : passes[i].kind = "eval"

UploadWrites(n, pd, pl) ==
    <<Join(n, MetadataJson),
      Join(n, <<"data", ".">> \o get_filetype(pd)),
      Join(n, <<"labels", ".">> \o get_filetype(pl)),
      INDEX>>

\* The dataset names a bucket shows to the public: the first segment of every
\* key but the two reserved ones, the private_ ones left out.
PublicNames(b) ==
    {SplitSlashFirst(k) :
        k \in {j \in DOMAIN b : j # PNG /\ j # INDEX /\ j[1] # "private_"}}

\* the _upload of c returns in this step
UploadReturns(c) ==
    /\ inflight[c].at # "ended"
    /\ inflight'[c].at = "ended"
    /\ last'.c = c /\ last'.op = "_upload" /\ last'.out = "ok"

\* Every write of an _upload under way is the next one of the sequence
\* metadata, data, labels, index, under one name, and touches that blob only;
\* the index is written when the three payload blobs are in the bucket, with
\* the names the bucket shows at that moment.
WritesInOrder(c) ==
    LET p == inflight[c].puts
        q == inflight'[c].puts
        plan == UploadWrites(SplitSlashFirst(q[1]), inflight'[c].path_data,
                             inflight'[c].path_label)
    IN  /\ q # p =>
            /\ Len(q) = Len(p) + 1
            /\ Len(q) <= 4
            /\ SubSeq(q, 1, Len(p)) = p
            /\ q[Len(q)] = plan[Len(q)]
            /\ Changed(bucket, bucket') \cup Created(bucket, bucket') \subseteq {q[Len(q)]}
            /\ q[Len(q)] \in DOMAIN bucket'
            /\ Len(q) = 4 =>
                 /\ {q[1], q[2], q[3]} \subseteq DOMAIN bucket
                 /\ bucket'[INDEX].names = PublicNames(bucket)
                 /\ bucket'[INDEX].names = PublicNames(bucket')
        /\ UploadReturns(c) => Len(q) = 4 /\ q # p /\ last'.puts = q

DatasetBlobs(b) == {k \in DOMAIN b : k # PNG /\ k # INDEX}

PassedCheck(c) == inflight[c].at = "_upload_metadata"

\* the _upload of c is between two of its calls
UnderWay(c) == inflight[c].at \notin {"none", "ended"}

C22_DownloadListing ==
    last.op = "download" =>
        /\ DownloadListing(last.c, bucket) = get_existing_dataset(last.c, bucket).names
        /\ (Authenticated(last.c) /\ StartsWithPrivate(SelfName(last.c)))
              => last.out = "NotFoundError"

\* ------------------------------------------------------------------- C24
\* C24: an _upload that fails on the extension of its data or label path has
\* written no blob: the bucket, and so its listing, is as it was before the
\* call, and the name is still free for a later _upload.
C24_BadExtensionWritesNothing ==
    (last.op = "_upload" /\ last.out = "FileTypeError") =>
        /\ last.puts = <<>>
        /\ last.touched = {}
        /\ ~upload_exists(last.c, bucket)

\* ------------------------------------------------------------------- C25
\* the record _add_metadata of c dumps to its temporary file
BuiltBy(c) == <<"metadata_of_" \o ToString(c)>>

\* C25: for two authenticated clients in one directory, the metadata blob an
\* _upload stores is the record its own client built; a discard leaves the
\* temporary file of the other client in place and does not fail on a file
\* the other client removed.
C25_OwnMetadata ==
    /\ (last.op = "_upload" /\ last.out = "ok")
          => bucket[last.puts[1]].origin = BuiltBy(last.c)
    /\ last.op = "__del__" =>
          /\ last.out = "ok"
          /\ \A d \in Clients \ {last.c} :
                (alive[d] /\ path_metadata[d] # NoneStr) => path_metadata[d] \in DOMAIN fs

\* ------------------------------------------------------------------- C21
\* the calls on the optimizer, and the loss before them
OptimizerCalls == {"zero_grad", "backward", "step"}

RECURSIVE Only(_, _)
Only(s, keep) ==
    IF s = <<>> THEN <<>>
    ELSE (IF Head(s) \in keep THEN <<Head(s)>> ELSE <<>>) \o Only(Tail(s), keep)

\* the training passes of the log, and the batches of the i-th pass of the log
TrainPasses == {i \in 1..Len(passes) : passes[i].kind = "train"}
Batches(i) == Len(passes[i].steps)

\* Every batch of the last training pass: the loss, then one zero_grad, one
\* backward and one step, in this order.
BatchesInOrder ==
    lastPass.kind = "train" =>
        /\ Only(lastPass.calls, OptimizerCalls \cup {"loss_fn"})
              = Repeat(<<"loss_fn", "zero_grad", "backward", "step">>,
                       Count(lastPass.calls, "model"))
        /\ lastPass.fault = "" => Count(lastPass.calls, "model") = lastPass.steps

\* The parameter updates of the call so far: as many as its training passes
\* times the batches of a pass (a pass that raised stopped short of that).
UpdatesCounted ==
    nTrain > 0 =>
        /\ optimizer.zero_grad = optimizer.step /\ optimizer.backward = optimizer.step
        /\ \A i \in TrainPasses, j \in TrainPasses : Batches(i) = Batches(j)
        /\ \A i \in TrainPasses :
              IF lastPass.kind = "train" /\ lastPass.fault # ""
              THEN /\ optimizer.step >= Cardinality(TrainPasses) * Batches(i)
                   /\ optimizer.step < (Cardinality(TrainPasses) + 1) * lastPass.steps
              ELSE optimizer.step = Cardinality(TrainPasses) * Batches(i)
        /\ TrainPasses = {} =>
              optimizer.step = Count(lastPass.calls, "step")

\* the optimizer is built once a call, before any pass
BuiltOnce ==
    /\ nTrain > 0 => optimizer.built = 1
    /\ nTrain = 0 => optimizer = NoOptimizer /\ passes = <<>> /\ lastPass = NoPass

BuiltBeforePasses ==
    nTrain' # nTrain => optimizer' = NewOptimizer /\ passes' = <<>> /\ lastPass' = NoPass

\* an evaluation pass makes no call on the optimizer and leaves it, and so
\* the parameters of the model, as they were
EvalLeavesModel ==
    (lastPass'.kind = "eval" /\ (passes' # passes \/ lastPass' # lastPass))
        => /\ optimizer' = optimizer
           /\ Only(lastPass'.calls, OptimizerCalls) = <<>>

C23_UniverseIsDataset ==
    \A i \in 1..Len(folds) :
        folds[i].tr_idx \cup folds[i].val_idx = 0 .. (dataloaders[1].size - 1)

====
